---------------------------- MODULE Spec2Model ----------------------------
(***************************************************************************)
(* Model of the two GWAS post-processing scripts:                          *)
(*   extract_top_snps.py : extract_top_snps(input_file, output_prefix,     *)
(*                         n_top=1000) and its command-line entry point;   *)
(*   generate_plots.py   : manhattan_plot, qq_plot and the orchestrator    *)
(*                         main(assoc_dir, qc_dir, output_dir).            *)
(*                                                                         *)
(* A run executes one entry point, selected by prog in the initial state.  *)
(* p-values are fixed-point integers in units of 1e-9 (P_ONE = 1.0); a     *)
(* missing p-value (NaN) is the record NA.  -log10 is kept symbolically:   *)
(* the value -log10(num/den) is [cls |-> "fin", num, den] with num/den in  *)
(* lowest terms, -log10(0) is +inf and -log10 of a negative number is NaN. *)
(***************************************************************************)
EXTENDS Integers, Sequences, FiniteSets

VARIABLES
    prog,        \* entry point of this run
    input,       \* the association file: [cols, rows], cols the header kind
    argv,        \* sys.argv of extract_top_snps.py
    n_top,       \* extract_top_snps parameter n_top
    pc,          \* position inside extract_top_snps
    cliPc,       \* position inside the __main__ block of extract_top_snps.py
    p_col,       \* local p_col
    df_clean,    \* local df_clean
    df_sorted,   \* local df_sorted
    files,       \* the five output files: NoFile or the rows written
    ret,         \* return value of extract_top_snps
    exc,         \* exception that left the function / the script ("none" if none)
    raisedAt,    \* output file whose write raised ("none" if none)
    readFailed,  \* pd.read_csv raised in extract_top_snps
    console,     \* standard output, as a sequence of message tags
    plot,        \* result of a direct manhattan_plot / qq_plot call
    exists,      \* orchestrator: which expected input files exist
    mainPc,      \* orchestrator: position in main
    attempted,   \* orchestrator: plot routines called so far, in order
    failed,      \* orchestrator: plot routines whose call raised
    results,     \* orchestrator: keys stored in the results dict
    images       \* orchestrator: image files written to output_dir

vars == << prog, input, argv, n_top, pc, cliPc, p_col, df_clean, df_sorted,
           files, ret, exc, raisedAt, readFailed, console, plot,
           exists, mainPc, attempted, failed, results, images >>

extractVars == << argv, n_top, pc, cliPc, p_col, df_clean, df_sorted,
                  files, ret, exc, raisedAt, readFailed >>

mainVars == << exists, mainPc, attempted, failed, results, images >>

----------------------------------------------------------------------------
(* Bounds of the model *)

\* longest exhaustively enumerated association table
MaxLen == 3

----------------------------------------------------------------------------
(* Program constants; p-values in units of 1e-9 *)

P_ONE == 1000 * 1000 * 1000

\* 5e-8, extract_top_snps.py line 47
GW_THRESHOLD == 50

\* 1e-5, extract_top_snps.py line 54
SUGGESTIVE_THRESHOLD == 10000

\* default of n_top, extract_top_snps.py line 10
N_TOP_DEFAULT == 1000

\* df_sorted.head(100), extract_top_snps.py line 41
HEAD_100 == 100

\* df.nsmallest(10, p_col), generate_plots.py line 74
N_SMALLEST == 10

\* len(sys.argv) < 3, extract_top_snps.py line 71
MIN_ARGC == 3

----------------------------------------------------------------------------
(* p-values and rows *)

NA == [isna |-> TRUE, val |-> 0]

Num(v) == [isna |-> FALSE, val |-> v]

\* Series.notna()
notna(p) == ~p.isna

\* elementwise p < t on a float column: False for NaN
Lt(p, t) == ~p.isna /\ p.val < t

\* elementwise p > t on a float column: False for NaN
Gt(p, t) == ~p.isna /\ p.val > t

\* One record of a table of n rows.  SNP is the input row number, which
\* identifies the record; STAT stands for the columns besides the five of
\* the summary projection.
Row(i, n, p) ==
    [CHR |-> 1 + (i % 2), SNP |-> i, BP |-> 100 * (n + 1 - i), A1 |-> "A",
     STAT |-> 7 * i, P |-> p]

\* p-values of the enumerated tables: missing, zero, negative, 4e-9, 2e-6, 0.5
PVals == { NA, Num(0), Num(-1), Num(4), Num(2000), Num(500000000) }

SmallTables ==
    UNION { { [i \in 1..n |-> Row(i, n, f[i])] : f \in [1..n -> PVals] }
            : n \in 0..MaxLen }

\* Long tables, free of ties: p decreases down the file from above 1e-5 to
\* below 5e-8, every 500th row from the 7th has a missing p-value.
BigLens == { HEAD_100 + 3, N_TOP_DEFAULT + 3 }

BigTable(n) ==
    [i \in 1..n |-> Row(i, n, IF i % 500 = 7 THEN NA ELSE Num(20 * (n + 1 - i)))]

Tables == SmallTables \cup { BigTable(n) : n \in BigLens }

\* p-values of the tables handed to the plot routines:
\* missing, zero, negative, 0.25, 0.5, 0.75
PlotPVals == { NA, Num(0), Num(-1), Num(250000000), Num(500000000), Num(750000000) }

\* a table longer than the ten records manhattan_plot returns: p from 0.011 down
PlotLongLen == 11

PlotLongTable ==
    [i \in 1..PlotLongLen |-> Row(i, PlotLongLen, Num(1000000 * (PlotLongLen + 1 - i)))]

PlotTables ==
    UNION { { [i \in 1..n |-> Row(i, n, f[i])] : f \in [1..n -> PlotPVals] }
            : n \in 0..MaxLen }
    \cup { PlotLongTable }

\* Header kinds: a column named P; no P but at least 9 columns; no P and
\* fewer than 9 columns.
Headers == { "P", "ninth", "short" }

Range(s) == { s[i] : i \in 1..Len(s) }

Min(a, b) == IF a < b THEN a ELSE b

Max(a, b) == IF a > b THEN a ELSE b


----------------------------------------------------------------------------
(* pandas operations used by extract_top_snps *)

\* DataFrame.head(n): the first n rows; for negative n all but the last -n
DfHead(df, n) ==
    IF n >= 0 THEN SubSeq(df, 1, Min(n, Len(df)))
              ELSE SubSeq(df, 1, Max(Len(df) + n, 0))

\* df[df[p_col].notna()]
DropNA(df) == SelectSeq(df, LAMBDA r : notna(r.P))

\* number of rows that a stable ascending sort puts before row i
RankOf(df, i) ==
    Cardinality({ j \in 1..Len(df) :
                    \/ df[j].P.val < df[i].P.val
                    \/ df[j].P.val = df[i].P.val /\ j < i })

\* the ascending sort that keeps the input order of equal keys
StableSort(df) ==
    LET n     == Len(df)
        pairs == { << RankOf(df, i) + 1, i >> : i \in 1..n }
    IN  [k \in 1..n |-> df[(CHOOSE pr \in pairs : pr[1] = k)[2]]]

NoTies(df) ==
    \A i, j \in 1..Len(df) : i # j => df[i].P.val # df[j].P.val

Perms(n) ==
    { f \in [1..n -> 1..n] : \A i, j \in 1..n : i # j => f[i] # f[j] }

IsSortedByP(s) ==
    \A k \in 1..(Len(s) - 1) : s[k].P.val <= s[k + 1].P.val

\* DataFrame.sort_values(by=p_col) on a frame without NaN keys.  The call
\* leaves kind at its default 'quicksort', which does not promise to keep
\* the order of equal keys: every ascending arrangement of the rows is a
\* possible result.  Without ties there is exactly one.
SortValues(df) ==
    IF NoTies(df)
    THEN { StableSort(df) }
    ELSE { s \in { [k \in 1..Len(df) |-> df[f[k]]] : f \in Perms(Len(df)) } :
             IsSortedByP(s) }

\* df_sorted.head(n_top), line 35
Top1000(sorted, n) == DfHead(sorted, n)

\* a slip: the last 100 rows instead of the first
Top100Tail(sorted) == SubSeq(sorted, Max(Len(sorted) - HEAD_100, 0) + 1, Len(sorted))

\* df_sorted.head(100), line 41
Top100(sorted) == DfHead(sorted, HEAD_100)

\* df_clean[df_clean[p_col] < 5e-8], line 47
GwSig(clean) == SelectSeq(clean, LAMBDA r : Lt(r.P, GW_THRESHOLD))

\* a slip: the comparison turned round
SuggestiveFlipped(clean) == SelectSeq(clean, LAMBDA r : Gt(r.P, SUGGESTIVE_THRESHOLD))

\* df_clean[df_clean[p_col] < 1e-5], line 54
Suggestive(clean) == SelectSeq(clean, LAMBDA r : Lt(r.P, SUGGESTIVE_THRESHOLD))

\* the projection of one row onto CHR, SNP, BP, A1 and the p-value as P
SummaryRow(r) ==
    [CHR |-> r.CHR, SNP |-> r.SNP, BP |-> r.BP, A1 |-> r.A1, P |-> r.P]

\* df_clean[['CHR', 'SNP', 'BP', 'A1', p_col]] with the columns renamed, lines 62-63
Summary(clean) == [k \in 1..Len(clean) |-> SummaryRow(clean[k])]

----------------------------------------------------------------------------
(* extract_top_snps.py *)

\* an output file that was not written, and one holding the rows written
NoFile == [written |-> FALSE, rows |-> << >>]

File(rows) == [written |-> TRUE, rows |-> rows]

\* the return value None of a function returning a tuple otherwise
None == << >>

\* the result of manhattan_plot / qq_plot before the call
NoPlot == [status |-> "none"]

OutputNames == { "top_1000_snps", "top_100_snps", "genome_wide_significant_snps_5e-8",
                 "suggestive_snps_1e-5", "summary_statistics" }

\* values of n_top for a direct call of the function
NTops == { -1, 1, HEAD_100, HEAD_100 + 1, N_TOP_DEFAULT }

\* command lines: too few arguments, the two paths, the two paths and a count
Argvs == { << "extract_top_snps.py", "in.assoc" >>,
           << "extract_top_snps.py", "in.assoc", "out" >>,
           << "extract_top_snps.py", "in.assoc", "out", "1" >>,
           << "extract_top_snps.py", "in.assoc", "out", "101" >> }

\* int() of a command-line word
ParseInt(w) == CASE w = "1" -> 1 [] w = "101" -> 101 [] OTHER -> 0

IdleMain ==
    /\ exists = [f \in {} |-> FALSE]
    /\ mainPc = [step |-> "idle", i |-> 0]
    /\ attempted = << >>
    /\ failed = {}
    /\ results = {}
    /\ images = {}

IdleExtract ==
    /\ argv = << >>
    /\ n_top = N_TOP_DEFAULT
    /\ pc = "idle"
    /\ cliPc = "idle"
    /\ p_col = "unset"
    /\ df_clean = << >>
    /\ df_sorted = << >>
    /\ files = [f \in OutputNames |-> NoFile]
    /\ ret = None
    /\ exc = "none"
    /\ raisedAt = "none"
    /\ readFailed = FALSE

\* the script is started from the shell
InitCli ==
    /\ prog = "extract_cli"
    /\ input \in [cols : Headers, rows : Tables]
    /\ argv \in Argvs
    /\ n_top = N_TOP_DEFAULT
    /\ pc = "idle"
    /\ cliPc = "start"
    /\ p_col = "unset" /\ df_clean = << >> /\ df_sorted = << >>
    /\ files = [f \in OutputNames |-> NoFile]
    /\ ret = None /\ exc = "none" /\ raisedAt = "none" /\ readFailed = FALSE
    /\ console = << >>
    /\ plot = NoPlot
    /\ IdleMain

\* the function is imported and called with an n_top of the caller's choice
InitCall ==
    /\ prog = "extract_call"
    /\ input \in [cols : Headers, rows : Tables]
    /\ argv = << >>
    /\ n_top \in NTops
    /\ pc = "read"
    /\ cliPc = "idle"
    /\ p_col = "unset" /\ df_clean = << >> /\ df_sorted = << >>
    /\ files = [f \in OutputNames |-> NoFile]
    /\ ret = None /\ exc = "none" /\ raisedAt = "none" /\ readFailed = FALSE
    /\ console = << "Reading" >>
    /\ plot = NoPlot
    /\ IdleMain

\* a variant that reads the count from the command line
CliNTopFromArgv(args) ==
    IF Len(args) > MIN_ARGC THEN ParseInt(args[MIN_ARGC + 1]) ELSE N_TOP_DEFAULT

\* the n_top that line 78 passes: none, so the default of line 10
CliNTop(args) == N_TOP_DEFAULT

\* lines 71-78: the usage check and the call
CliStart ==
    /\ cliPc = "start"
    /\ IF Len(argv) < MIN_ARGC
       THEN /\ cliPc' = "exit1"
            /\ console' = Append(console, "Usage")
            /\ UNCHANGED << n_top, pc >>
       ELSE /\ cliPc' = "calling"
            /\ n_top' = CliNTop(argv)
            /\ pc' = "read"
            /\ console' = Append(console, "Reading")
    /\ UNCHANGED << prog, input, argv, p_col, df_clean, df_sorted, files, ret, exc,
                    raisedAt, readFailed, plot >>
    /\ UNCHANGED mainVars

\* a slip: the handler reports the error and falls through with an empty frame
ReadFailureFallsThrough ==
    /\ readFailed' = TRUE
    /\ console' = Append(console, "ErrorReading")
    /\ pc' = "top1000"
    /\ UNCHANGED << ret, p_col, df_clean, df_sorted, files, exc >>

\* lines 18-20: the handler of a failed read
ReadFailure ==
    /\ readFailed' = TRUE
    /\ console' = Append(console, "ErrorReading")
    /\ ret' = None
    /\ pc' = "returned"
    /\ UNCHANGED << p_col, df_clean, df_sorted, files, exc >>

\* lines 16-20: pd.read_csv succeeds or raises
ReadCsv ==
    /\ pc = "read"
    /\ \/ /\ pc' = "loaded"
          /\ console' = Append(console, "Total")
          /\ UNCHANGED << readFailed, ret, p_col, df_clean, df_sorted, files, exc >>
       \/ ReadFailure
    /\ UNCHANGED << prog, input, argv, n_top, cliPc, raisedAt, plot >>
    /\ UNCHANGED mainVars

\* lines 25-32: the p-value column, the NA filter and the sort
CleanAndSort ==
    /\ pc = "loaded"
    /\ IF input.cols = "short"
       THEN \* df.columns[8] of a frame with fewer than 9 columns
            /\ pc' = "raised"
            /\ exc' = "IndexError"
            /\ UNCHANGED << p_col, df_clean, df_sorted, console >>
       ELSE /\ p_col' = IF input.cols = "P" THEN "P" ELSE "columns[8]"
            /\ df_clean' = DropNA(input.rows)
            /\ df_sorted' \in SortValues(DropNA(input.rows))
            /\ console' = Append(console, "Valid")
            /\ pc' = "top1000"
            /\ UNCHANGED exc
    /\ UNCHANGED << prog, input, argv, n_top, cliPc, files, ret, raisedAt,
                    readFailed, plot >>
    /\ UNCHANGED mainVars

\* one to_csv call and the prints after it; the call writes the file or raises
WriteStep(at, next, name, rows, msg) ==
    /\ pc = at
    /\ \/ /\ files' = [files EXCEPT ![name] = File(rows)]
          /\ console' = Append(console, msg)
          /\ pc' = next
          /\ UNCHANGED << exc, raisedAt >>
       \/ /\ pc' = "raised"
          /\ exc' = "OSError"
          /\ raisedAt' = name
          /\ UNCHANGED << files, console >>
    /\ UNCHANGED << prog, input, argv, n_top, cliPc, p_col, df_clean, df_sorted,
                    ret, readFailed, plot >>
    /\ UNCHANGED mainVars

\* lines 35-38
WriteTop1000 ==
    WriteStep("top1000", "top100", "top_1000_snps", Top1000(df_sorted, n_top),
              "Top1000Saved")

\* lines 41-44
WriteTop100 ==
    WriteStep("top100", "gw", "top_100_snps", Top100(df_sorted), "Top100Saved")

\* lines 47-51
WriteGwSig ==
    WriteStep("gw", "suggestive", "genome_wide_significant_snps_5e-8",
              GwSig(df_clean), "GwSaved")

\* lines 54-58
WriteSuggestive ==
    WriteStep("suggestive", "summary", "suggestive_snps_1e-5",
              Suggestive(df_clean), "SuggestiveSaved")

\* lines 61-65
WriteSummary ==
    WriteStep("summary", "finish", "summary_statistics", Summary(df_clean),
              "SummarySaved")

\* lines 67-68
Return ==
    /\ pc = "finish"
    /\ console' = Append(console, "ExtractionComplete")
    /\ ret' = << Len(GwSig(df_clean)), Len(Suggestive(df_clean)) >>
    /\ pc' = "returned"
    /\ UNCHANGED << prog, input, argv, n_top, cliPc, p_col, df_clean, df_sorted,
                    files, exc, raisedAt, readFailed, plot >>
    /\ UNCHANGED mainVars

\* lines 78-82: gw, sugg = <return value>, then the summary
CliFinish ==
    /\ cliPc = "calling"
    /\ pc = "returned"
    /\ IF ret = None
       THEN \* unpacking None
            /\ cliPc' = "unhandled"
            /\ exc' = "TypeError"
            /\ UNCHANGED console
       ELSE /\ cliPc' = "done"
            /\ console' = Append(console, "Summary")
            /\ UNCHANGED exc
    /\ UNCHANGED << prog, input, argv, n_top, pc, p_col, df_clean, df_sorted,
                    files, ret, raisedAt, readFailed, plot >>
    /\ UNCHANGED mainVars

\* an exception raised inside the function leaves the script: nothing catches it
CliPropagate ==
    /\ cliPc = "calling"
    /\ pc = "raised"
    /\ cliPc' = "unhandled"
    /\ UNCHANGED << prog, input, argv, n_top, pc, p_col, df_clean, df_sorted,
                    files, ret, exc, raisedAt, readFailed, console, plot >>
    /\ UNCHANGED mainVars

ExtractNext ==
    \/ CliStart
    \/ ReadCsv
    \/ CleanAndSort
    \/ WriteTop1000
    \/ WriteTop100
    \/ WriteGwSig
    \/ WriteSuggestive
    \/ WriteSummary
    \/ Return
    \/ CliFinish
    \/ CliPropagate

----------------------------------------------------------------------------
(* numpy operations used by the plot routines *)

RECURSIVE GCD(_, _)
GCD(a, b) == IF b = 0 THEN a ELSE GCD(b, a % b)

NaN == [cls |-> "nan", num |-> 0, den |-> 1]

PosInf == [cls |-> "inf", num |-> 0, den |-> 1]

\* -np.log10(a/b) for b > 0: NaN below zero, +inf at zero (log10 gives -inf)
NegLog10Frac(a, b) ==
    IF a < 0 THEN NaN
    ELSE IF a = 0 THEN PosInf
    ELSE [cls |-> "fin", num |-> a \div GCD(a, b), den |-> b \div GCD(a, b)]

\* -np.log10 of a p-value; NaN stays NaN
NegLog10(p) == IF p.isna THEN NaN ELSE NegLog10Frac(p.val, P_ONE)

\* x <= y on floats: False when either is NaN; -log10 is decreasing
LogLeq(x, y) ==
    /\ x.cls # "nan" /\ y.cls # "nan"
    /\ \/ y.cls = "inf"
       \/ x.cls = "fin" /\ y.cls = "fin" /\ x.num * y.den >= y.num * x.den

LogLt(x, y) == LogLeq(x, y) /\ ~LogLeq(y, x)

\* np.sort of an array of finite floats: ascending
NpSort(a) ==
    LET n     == Len(a)
        rank  == [i \in 1..n |->
                    Cardinality({ j \in 1..n : \/ LogLt(a[j], a[i])
                                               \/ ~LogLt(a[i], a[j]) /\ j < i })]
    IN  [k \in 1..n |-> a[CHOOSE i \in 1..n : rank[i] + 1 = k]]

\* df.sort_values(['CHR', 'BP']): ascending by chromosome, then position;
\* rows equal in both keep their order
SortChrBp(df) ==
    LET n     == Len(df)
        before(j, i) == \/ df[j].CHR < df[i].CHR
                        \/ df[j].CHR = df[i].CHR /\ df[j].BP < df[i].BP
                        \/ df[j].CHR = df[i].CHR /\ df[j].BP = df[i].BP /\ j < i
        rank  == [i \in 1..n |-> Cardinality({ j \in 1..n : before(j, i) })]
    IN  [k \in 1..n |-> df[CHOOSE i \in 1..n : rank[i] + 1 = k]]

\* df.nsmallest(10, p_col): the rows of the smallest p-values, ascending,
\* the first rows of the frame first among equals
NSmallest(df) == DfHead(StableSort(df), N_SMALLEST)

----------------------------------------------------------------------------
(* generate_plots.py: manhattan_plot *)

\* lines 27-31: rows with a p-value whose -log10 is not NaN
ManhattanClean(rows) ==
    SelectSeq(DropNA(rows), LAMBDA r : NegLog10(r.P).cls # "nan")

\* lines 34-37: the frame that is plotted, in (CHR, BP) order
ManhattanFrame(rows) == SortChrBp(ManhattanClean(rows))

\* lines 37-50: the points handed to ax.scatter, one per row of the frame:
\* x = IND, y = MINLOG10P (a y of +inf takes its x position and is not drawn)
ManhattanPoints(rows) ==
    LET df == ManhattanFrame(rows)
    IN  [k \in 1..Len(df) |->
            [IND |-> k - 1, MINLOG10P |-> NegLog10(df[k].P), CHR |-> df[k].CHR,
             SNP |-> df[k].SNP]]

\* lines 48-52: per chromosome group, in ascending chromosome order, the
\* label, the colour number and twice the tick position (first + last IND)
ManhattanTicks(rows) ==
    LET pts  == ManhattanPoints(rows)
        chrs == { pts[k].CHR : k \in 1..Len(pts) }
        num(c) == Cardinality({ d \in chrs : d < c })
        inds(c) == { pts[k].IND : k \in { m \in 1..Len(pts) : pts[m].CHR = c } }
        lo(c) == CHOOSE x \in inds(c) : \A y \in inds(c) : x <= y
        hi(c) == CHOOSE x \in inds(c) : \A y \in inds(c) : x >= y
    IN  { [label |-> c, colour |-> num(c) % 2, pos2 |-> lo(c) + hi(c)] : c \in chrs }

\* lines 74-75: the frame's ten smallest p-values
ManhattanTop(rows) ==
    LET top == NSmallest(ManhattanFrame(rows))
    IN  [k \in 1..Len(top) |->
            [CHR |-> top[k].CHR, SNP |-> top[k].SNP, BP |-> top[k].BP, P |-> top[k].P]]

InitPlot(fn) ==
    /\ prog = fn
    /\ input \in [cols : Headers, rows : PlotTables]
    /\ IdleExtract
    /\ console = << >>
    /\ plot = NoPlot
    /\ IdleMain

InitManhattan == InitPlot("manhattan_plot")

\* manhattan_plot(assoc_file, output_file), lines 16-75
ManhattanPlot ==
    /\ prog = "manhattan_plot"
    /\ plot.status = "none"
    /\ IF input.cols = "short"
       THEN /\ plot' = [status |-> "raised", exc |-> "IndexError"]
            /\ console' = Append(console, "CreatingManhattan")
       ELSE /\ plot' = [status  |-> "saved",
                        points  |-> ManhattanPoints(input.rows),
                        ticks   |-> ManhattanTicks(input.rows),
                        top_snps |-> ManhattanTop(input.rows)]
            /\ console' = console \o << "CreatingManhattan", "ManhattanSaved" >>
    /\ UNCHANGED << prog, input >>
    /\ UNCHANGED extractVars
    /\ UNCHANGED mainVars

----------------------------------------------------------------------------
(* generate_plots.py: qq_plot *)

\* lines 88-89: the p-values that are not NaN and are above zero
QQPvals(rows) ==
    LET kept == SelectSeq(DropNA(rows), LAMBDA r : Gt(r.P, 0))
    IN  [k \in 1..Len(kept) |-> kept[k].P]

\* lines 92-93
QQObserved(rows) ==
    LET pv == QQPvals(rows)
    IN  NpSort([k \in 1..Len(pv) |-> NegLog10(pv[k])])

\* line 97: -np.log10(np.arange(1, n + 1) / (n + 1))
QQExpected(n) == [i \in 1..n |-> NegLog10Frac(i, n + 1)]

\* lines 100-101: a ratio with a freshly drawn random numerator when the
\* median p-value is above zero, which it is for every non-empty sample
QQLambda(rows) == IF Len(QQPvals(rows)) > 0 THEN "random/median" ELSE "1.0"

\* line 106: ax.scatter(expected, observed): the k-th point
QQPoints(rows) ==
    LET obs == QQObserved(rows)
        ex  == QQExpected(Len(obs))
    IN  [k \in 1..Len(obs) |-> [expected |-> ex[k], observed |-> obs[k]]]

InitQQ == InitPlot("qq_plot")

\* qq_plot(assoc_file, output_file), lines 77-124
QQPlot ==
    /\ prog = "qq_plot"
    /\ plot.status = "none"
    /\ IF input.cols = "short"
       THEN /\ plot' = [status |-> "raised", exc |-> "IndexError"]
            /\ console' = Append(console, "CreatingQQ")
       ELSE IF Len(QQPvals(input.rows)) = 0
       THEN \* line 109: max() of an empty array
            /\ plot' = [status |-> "raised", exc |-> "ValueError"]
            /\ console' = Append(console, "CreatingQQ")
       ELSE /\ plot' = [status    |-> "saved",
                        pvals     |-> QQPvals(input.rows),
                        points    |-> QQPoints(input.rows),
                        lambda_gc |-> QQLambda(input.rows)]
            /\ console' = console \o << "CreatingQQ", "QQSaved" >>
    /\ UNCHANGED << prog, input >>
    /\ UNCHANGED extractVars
    /\ UNCHANGED mainVars

PlotNext == ManhattanPlot \/ QQPlot

----------------------------------------------------------------------------
(* generate_plots.py: main *)

\* lines 204-208: the three analyses, (file, label), in order
Analyses ==
    << [file |-> "AA_GWAS_hg19_uniq_assoc_noQC.assoc", label |-> "No QC"],
       [file |-> "AA_GWAS_hg19_uniq_assoc_withQC.assoc", label |-> "With QC"],
       [file |-> "AA_GWAS_hg19_uniq_assoc.assoc", label |-> "Standard"] >>

PcaFile == "AA_GWAS_hg19_uniq_pca.eigenvec"

LmissFile == "basic_stats_preQC.lmiss"

ImissFile == "basic_stats_preQC.imiss"

ExpectedFiles ==
    { Analyses[i].file : i \in 1..Len(Analyses) } \cup { PcaFile, LmissFile, ImissFile }

At(step, i) == [step |-> step, i |-> i]

\* the position after the body of loop iteration i
AfterAnalysis(i) == IF i < Len(Analyses) THEN At("analysis", i + 1) ELSE At("pca", 0)

InitMain ==
    /\ prog = "main"
    /\ input = [cols |-> "P", rows |-> << >>]
    /\ IdleExtract
    /\ console = << >>
    /\ plot = NoPlot
    /\ exists \in [ExpectedFiles -> BOOLEAN]
    /\ mainPc = At("mkdir", 0)
    /\ attempted = << >>
    /\ failed = {}
    /\ results = {}
    /\ images = {}

\* lines 194-201: output_dir.mkdir(exist_ok=True) creates the directory, finds
\* it, or raises (a missing parent, a file of that name); then the banner
Mkdir ==
    /\ mainPc = At("mkdir", 0)
    /\ \/ /\ mainPc' = At("analysis", 1)
          /\ console' = Append(console, "Banner")
       \/ /\ mainPc' = At("raised", 0)
          /\ UNCHANGED console
    /\ UNCHANGED << prog, input, plot, exists, attempted, failed, results, images >>
    /\ UNCHANGED extractVars

\* lines 210-213: the existence test of one analysis file
AnalysisCheck ==
    /\ mainPc.step = "analysis"
    /\ IF exists[Analyses[mainPc.i].file]
       THEN /\ mainPc' = At("manhattan", mainPc.i)
            /\ console' = Append(console, "Processing")
       ELSE /\ mainPc' = AfterAnalysis(mainPc.i)
            /\ UNCHANGED console
    /\ UNCHANGED << prog, input, plot, exists, attempted, failed, results, images >>
    /\ UNCHANGED extractVars

\* a slip: a call outside any try block, its exception leaves main
Unhandled(call, next) ==
    /\ failed' = failed \cup { call }
    /\ console' = console
    /\ mainPc' = At("raised", 0)

\* an except clause of main: the error is printed and main goes on at next
Handled(call, next) ==
    /\ failed' = failed \cup { call }
    /\ console' = Append(console, "ErrorCreating")
    /\ mainPc' = next

\* a try block of main: the routine is called; it returns, the image saved,
\* and its result is stored under key, or it raises and the handler runs
Try(call, image, key, next) ==
    /\ attempted' = Append(attempted, call)
    /\ \/ /\ images' = images \cup { image }
          /\ results' = results \cup key
          /\ console' = Append(console, "Saved")
          /\ mainPc' = next
          /\ UNCHANGED failed
       \/ /\ Handled(call, next)
          /\ UNCHANGED << images, results >>
    /\ UNCHANGED << prog, input, plot, exists >>
    /\ UNCHANGED extractVars

\* lines 215-222
MainManhattan ==
    /\ mainPc.step = "manhattan"
    /\ LET label == Analyses[mainPc.i].label
       IN  Try(<< "manhattan_plot", label >>, << "manhattan_plot", label >>,
               { << label, "top_snps" >> }, At("qq", mainPc.i))

\* lines 224-232
MainQQ ==
    /\ mainPc.step = "qq"
    /\ LET label == Analyses[mainPc.i].label
       IN  Try(<< "qq_plot", label >>, << "qq_plot", label >>,
               { << label, "lambda" >> }, AfterAnalysis(mainPc.i))

\* a guarded plot that is skipped: nothing is attempted
Skip(next) ==
    /\ mainPc' = next
    /\ UNCHANGED << prog, input, plot, exists, attempted, failed, results, images,
                    console >>
    /\ UNCHANGED extractVars

\* lines 235-241
MainPca ==
    /\ mainPc.step = "pca"
    /\ IF exists[PcaFile]
       THEN Try(<< "pca_plot", "" >>, << "pca_plot", "" >>, {}, At("missingness", 0))
       ELSE Skip(At("missingness", 0))

\* lines 244-252
MainMissingness ==
    /\ mainPc.step = "missingness"
    /\ IF exists[LmissFile] /\ exists[ImissFile]
       THEN Try(<< "missingness_plot", "" >>, << "missingness_plots", "" >>, {},
                At("report", 0))
       ELSE Skip(At("report", 0))

\* lines 254-257: the completion report
MainReport ==
    /\ mainPc.step = "report"
    /\ mainPc' = At("done", 0)
    /\ console' = Append(console, "VisualizationComplete")
    /\ UNCHANGED << prog, input, plot, exists, attempted, failed, results, images >>
    /\ UNCHANGED extractVars

MainNext ==
    \/ Mkdir
    \/ AnalysisCheck
    \/ MainManhattan
    \/ MainQQ
    \/ MainPca
    \/ MainMissingness
    \/ MainReport

----------------------------------------------------------------------------
(* Specifications *)

Init == InitCli \/ InitCall \/ InitManhattan \/ InitQQ \/ InitMain

Next == ExtractNext \/ PlotNext \/ MainNext

\* every entry point
Spec == Init /\ [][Next]_vars

\* the orchestrator alone; a started run of the script keeps executing
MainSpec == InitMain /\ [][MainNext]_vars /\ WF_vars(MainNext)

----------------------------------------------------------------------------
(* Properties *)

IsPrefix(s, t) == Len(s) <= Len(t) /\ \A k \in 1..Len(s) : s[k] = t[k]

Rows(name) == files[name].rows

\* extract_top_snps ran to its last line and returned the counts
Completed == pc = "returned" /\ ret # None

\* the first k rows of s, all of s when it has fewer
FirstRows(s, k) == [i \in 1..(IF Len(s) < k THEN Len(s) ELSE k) |-> s[i]]

ValidP(p) == ~p.isna /\ p.val > 0

\* C1: when extract_top_snps completes, every record of the genome-wide
\* significant file is in the suggestive file, and every record of either has
\* its (CHR, SNP, BP, A1, P) row in the summary file.
C1_SignificantInSuggestiveInSummary ==
    Completed =>
        /\ \A name \in OutputNames : files[name].written
        /\ Range(Rows("genome_wide_significant_snps_5e-8"))
              \subseteq Range(Rows("suggestive_snps_1e-5"))
        /\ \A r \in Range(Rows("genome_wide_significant_snps_5e-8"))
                      \cup Range(Rows("suggestive_snps_1e-5")) :
              SummaryRow(r) \in Range(Rows("summary_statistics"))

C1_Witness ==
    /\ Completed
    /\ Len(Rows("genome_wide_significant_snps_5e-8")) > 0
    /\ Len(Rows("suggestive_snps_1e-5")) > Len(Rows("genome_wide_significant_snps_5e-8"))
    /\ Len(Rows("summary_statistics")) > Len(Rows("suggestive_snps_1e-5"))

C2_Body ==
    /\ Rows("top_100_snps") = FirstRows(Rows("top_1000_snps"), HEAD_100)
    /\ Len(Rows("top_1000_snps")) <= n_top
    /\ Len(Rows("top_1000_snps")) <= Len(DropNA(input.rows))

\* C2 as stated: for every table and every n_top, top_100_snps is the first
\* 100 rows of top_1000_snps, which has at most n_top rows and at most as
\* many as the cleaned input.
C2_Original == Completed => C2_Body

\* C2 amended: the same, for every n_top of at least 100.
C2_PrefixForNTopAtLeast100 == (Completed /\ n_top >= HEAD_100) => C2_Body

C2_Witness ==
    /\ Completed
    /\ n_top > HEAD_100
    /\ Len(Rows("top_100_snps")) = HEAD_100
    /\ Len(Rows("top_1000_snps")) = n_top
    /\ n_top < Len(DropNA(input.rows))

\* C3 as stated: no record with a missing or non-positive p-value reaches an
\* output table of extract_top_snps, the points or the returned records of
\* manhattan_plot, or the p-values qq_plot transforms.
C3_Original ==
    /\ \A name \in OutputNames : \A r \in Range(Rows(name)) : ValidP(r.P)
    /\ (prog = "manhattan_plot" /\ plot.status = "saved") =>
          /\ \A pt \in Range(plot.points) : ValidP(input.rows[pt.SNP].P)
          /\ \A r \in Range(plot.top_snps) : ValidP(r.P)
    /\ (prog = "qq_plot" /\ plot.status = "saved") =>
          \A p \in Range(plot.pvals) : ValidP(p)

\* C4 as stated: when the write of one output file fails, each of the other
\* output files is still written and the caller sees the failure.
C4_Original ==
    (pc = "raised" /\ raisedAt # "none") =>
        /\ \A name \in OutputNames \ { raisedAt } : files[name].written
        /\ exc # "none"

\* C5: when the input table cannot be read, extract_top_snps reports the
\* cause and returns before any write: no output file is created.
C5_ReadFailureWritesNothing ==
    readFailed =>
        /\ \A name \in OutputNames : files[name] = NoFile
        /\ console[Len(console)] = "ErrorReading"
        /\ pc = "returned"

C5_Witness == readFailed /\ pc = "returned" /\ Len(input.rows) > 0

\* the plot routines main has to attempt, in order, given the files present
ExpectedAttempts ==
    LET pair(i) == IF exists[Analyses[i].file]
                   THEN << << "manhattan_plot", Analyses[i].label >>,
                           << "qq_plot", Analyses[i].label >> >>
                   ELSE << >>
    IN  pair(1) \o pair(2) \o pair(3)
        \o (IF exists[PcaFile] THEN << << "pca_plot", "" >> >> ELSE << >>)
        \o (IF exists[LmissFile] /\ exists[ImissFile]
            THEN << << "missingness_plot", "" >> >> ELSE << >>)

C6_Attempts ==
    /\ IsPrefix(attempted, ExpectedAttempts)
    /\ mainPc.step = "done" =>
          /\ attempted = ExpectedAttempts
          /\ console[Len(console)] = "VisualizationComplete"
    /\ mainPc.step = "raised" => attempted = << >>

C7_Top1000Is(k) ==
    (prog = "extract_cli" /\ Completed) =>
        Rows("top_1000_snps") = FirstRows(df_sorted, k)

\* C7 as stated: a third command-line argument n_top sets the number of
\* records of top_1000_snps; without it the number is 1000.
C7_Original ==
    C7_Top1000Is(IF Len(argv) > 3 THEN ParseInt(argv[4]) ELSE 1000)

\* C7 amended: the command line takes no n_top; a third argument is ignored
\* and top_1000_snps holds the first 1000 records of the sorted cleaned table.
C7_CommandLineAlwaysWrites1000 == C7_Top1000Is(1000)

C7_Witness ==
    /\ prog = "extract_cli" /\ Completed
    /\ Len(argv) > 3
    /\ Len(df_sorted) > 1000
    /\ Len(Rows("top_1000_snps")) = 1000

SortedStably(s) ==
    \A k, l \in 1..Len(s) :
        k < l => \/ s[k].P.val < s[l].P.val
                 \/ s[k].P.val = s[l].P.val /\ s[k].SNP < s[l].SNP

\* C8 as stated: in top_1000_snps and top_100_snps the p-values do not
\* decrease and records of equal p-value keep their input order.
C8_Original ==
    /\ files["top_1000_snps"].written => SortedStably(Rows("top_1000_snps"))
    /\ files["top_100_snps"].written => SortedStably(Rows("top_100_snps"))

\* the sample is exactly the uniform quantiles k/(n+1), in any order
UniformSample(pv) ==
    \A k \in 1..Len(pv) :
        \E i \in 1..Len(pv) : pv[i].val * (Len(pv) + 1) = k * P_ONE

\* C9 as stated: the points of qq_plot are monotone in both coordinates, so
\* that equal ranks are paired and a sample of exactly uniform quantiles
\* lies on the diagonal.
C9_Original ==
    (prog = "qq_plot" /\ plot.status = "saved") =>
        /\ \A i, j \in 1..Len(plot.points) :
              i < j => /\ LogLeq(plot.points[i].observed, plot.points[j].observed)
                       /\ LogLeq(plot.points[i].expected, plot.points[j].expected)
        /\ UniformSample(plot.pvals) =>
              \A k \in 1..Len(plot.points) :
                  plot.points[k].observed = plot.points[k].expected

\* C10 as stated: every call of extract_top_snps that returns yields a pair
\* of counts, so the script reaches its summary without an unhandled error
\* also when the input file cannot be read.
C10_Original ==
    pc = "returned" => /\ Len(ret) = 2
                       /\ cliPc # "unhandled"

============================================================================
